---------------------------- MODULE Spec2Model ----------------------------
(***************************************************************************)
(* The sample registry of trunk/dna/models.py: the record types Sheet,     *)
(* Session, Sample, Photo, Plate, Well, Sequencing and Result, the         *)
(* constraints their field declarations state (unique, unique_together,    *)
(* choices, max_length, ForeignKey) and the derived names.                 *)
(*                                                                         *)
(* A table is a function from the stored primary keys to rows.  Every      *)
(* operation is one data-entry submission: it is validated against the     *)
(* declared constraints and either commits or leaves every table as it     *)
(* was; `response` is what the caller is told: "ok", or the error.         *)
(*                                                                         *)
(* The file holds declarations only: the writes are those of the           *)
(* persistence framework the classes derive from, which validates a        *)
(* submission against the declarations, stores a row under a key of its    *)
(* choice, and deletes the rows that reference a deleted row.              *)
(*                                                                         *)
(* The free-text `comments` fields carry no constraint and no derived      *)
(* value reads them; they are left out of the rows.  `capacity` is the     *)
(* number of rows the registry has room for; it never changes.             *)
(***************************************************************************)
EXTENDS Integers, Sequences, FiniteSets, TLC

VARIABLES sheets, sessions, samples, photos, plates, wells, sequencings,
          results, response, capacity

tables == <<sheets, sessions, samples, photos, plates, wells, sequencings,
            results>>
vars == <<sheets, sessions, samples, photos, plates, wells, sequencings,
          results, response, capacity>>

---------------------------------------------------------------------------
(* Bounds of the model. *)

\* rows the registry has room for, all tables together
MaxRows == 6
\* the same, when only the plates, the wells and what they rest on are entered
MaxWellRows == 7

\* the primary keys the storage hands out
Pks == {1, 2}

---------------------------------------------------------------------------
(* Declared limits and choices. *)

\* Sheet.name = CharField(max_length=32, ...)
SheetNameMax == 32
\* Plate.name = CharField(max_length=9, ...)
PlateNameMax == 9
\* Well.name = CharField(max_length=3, ...)
WellNameMax == 3
\* Well.primer = CharField(max_length=2, ...)
PrimerMax == 2

WellRows == <<"A", "B", "C", "D", "E", "F", "G", "H">>
WellCols == <<"01", "02", "03", "04", "05", "06",
              "07", "08", "09", "10", "11", "12">>

\* WELL_CHOICES = []; for i in rows: for j in cols: append((i + j, i + j))
RECURSIVE WellChoicesLoop(_, _, _)
WellChoicesLoop(i, j, acc) ==
    IF i > Len(WellRows) THEN acc
    ELSE IF j > Len(WellCols) THEN WellChoicesLoop(i + 1, 1, acc)
    ELSE WellChoicesLoop(i, j + 1,
             Append(acc, <<WellRows[i] \o WellCols[j],
                           WellRows[i] \o WellCols[j]>>))

WELL_CHOICES == WellChoicesLoop(1, 1, <<>>)

PRIMER_CHOICES == << <<"01", "01">>, <<"04", "04">>, <<"DL", "DL">> >>

\* the values a field with choices=c accepts: the first of each pair
ChoiceValues(c) == {c[k][1] : k \in 1..Len(c)}

WellNameChoices == ChoiceValues(WELL_CHOICES)
PrimerChoices == ChoiceValues(PRIMER_CHOICES)

---------------------------------------------------------------------------
(* Text conversions used by the derived names. *)

Digit(d) ==
    CASE d = 0 -> "0" [] d = 1 -> "1" [] d = 2 -> "2" [] d = 3 -> "3"
      [] d = 4 -> "4" [] d = 5 -> "5" [] d = 6 -> "6" [] d = 7 -> "7"
      [] d = 8 -> "8" [] d = 9 -> "9"

RECURSIVE StrNat(_)
StrNat(n) == IF n < 10 THEN Digit(n) ELSE StrNat(n \div 10) \o Digit(n % 10)

\* str(n) of an integer: decimal digits, a leading "-" when negative
StrInt(n) == IF n < 0 THEN "-" \o StrNat(0 - n) ELSE StrNat(n)

\* "%0<w>d" of a natural number: zero-padded to width w
RECURSIVE ZeroPad(_, _)
ZeroPad(s, w) == IF Len(s) >= w THEN s ELSE ZeroPad("0" \o s, w)

\* unicode(date): the ISO form YYYY-MM-DD
DateUnicode(d) ==
    ZeroPad(StrNat(d.year), 4) \o "-" \o ZeroPad(StrNat(d.month), 2)
        \o "-" \o ZeroPad(StrNat(d.day), 2)

\* sep.join(parts)
RECURSIVE Join(_, _)
Join(sep, parts) ==
    IF Len(parts) = 0 THEN ""
    ELSE IF Len(parts) = 1 THEN parts[1]
    ELSE parts[1] \o sep \o Join(sep, Tail(parts))

---------------------------------------------------------------------------
(* Submitted values. *)

LongSheetName == "812345678901234567890123456789012"
SheetNames == {"S1", "S1-2024-01-01", LongSheetName}
Dates == {[year |-> 2024, month |-> 1, day |-> 1],
          [year |-> 987, month |-> 12, day |-> 31]}
Coords == {<<10, -5>>}
Files == {"manuscript-dna/photos/a.jpg"}
PlateNames == {"P1", "P2", "P123456789"}
\* Well forms: the valid ones, one with a name off the grid, one with a
\* primer off the list
WellForms ==
    [plate : Pks, name : {"A01", "H12"}, sample : Pks, primer : {"DL"}]
    \cup {[plate |-> 1, name |-> "A13", sample |-> 1, primer |-> "01"],
          [plate |-> 1, name |-> "A01", sample |-> 1, primer |-> "99"]}

---------------------------------------------------------------------------
(* Derived names. *)

\* Sheet.__unicode__
SheetName(sh) == sheets[sh].name

\* unicode(date) and str(pk) of the dates and keys entered, computed once
DateUnicodeOf == [d \in Dates |-> DateUnicode(d)]
StrIntOf == [k \in Pks |-> StrInt(k)]

\* Session._getname: unicode(self.date)
SessionName(se) == DateUnicodeOf[sessions[se].date]

\* Sample._getname with a name that leaves the key out
SampleNameNoPk(s) ==
    Join("-", <<SheetName(samples[s].sheet), SessionName(samples[s].session)>>)

\* Sample._getname with the session's key in place of its date
SampleNameSessionPk(s) ==
    Join("-", <<SheetName(samples[s].sheet), StrIntOf[samples[s].session],
                StrIntOf[s]>>)

\* Sample._getname numbering the samples by their rank among the stored ones
SampleNameByRank(s) ==
    Join("-", <<SheetName(samples[s].sheet), SessionName(samples[s].session),
                StrIntOf[Cardinality({k \in DOMAIN samples : k <= s})]>>)

\* Sample._getname:
\*   u'-'.join((self.sheet.name, self.session.name, str(self.pk)))
SampleName(s) ==
    Join("-", <<SheetName(samples[s].sheet), SessionName(samples[s].session),
                StrIntOf[s]>>)

---------------------------------------------------------------------------
(* Tables. *)

Insert(t, pk, row) ==
    [k \in DOMAIN t \cup {pk} |-> IF k = pk THEN row ELSE t[k]]

Remove(t, ks) == [k \in DOMAIN t \ ks |-> t[k]]

Empty == [k \in {} |-> 0]

TotalRows ==
    Cardinality(DOMAIN sheets) + Cardinality(DOMAIN sessions)
    + Cardinality(DOMAIN samples) + Cardinality(DOMAIN photos)
    + Cardinality(DOMAIN plates) + Cardinality(DOMAIN wells)
    + Cardinality(DOMAIN sequencings) + Cardinality(DOMAIN results)

\* the registry stores at most `capacity` rows
Room == TotalRows < capacity

---------------------------------------------------------------------------
(* Declared constraints.  `self` is the key of the row being updated, 0    *)
(* for a create.                                                           *)

\* name = CharField(max_length=32, unique=True), with unique dropped
SheetNameUniqueOff(name, self) == TRUE

\* Sheet.name: unique=True
SheetNameUnique(name, self) ==
    \A k \in DOMAIN sheets \ {self} : sheets[k].name # name

\* Sheet.name: max_length=32
SheetNameFits(name) == Len(name) <= SheetNameMax

\* Session.date: unique=True
SessionDateUnique(date, self) ==
    \A k \in DOMAIN sessions \ {self} : sessions[k].date # date

\* name = CharField(max_length=9, unique=True), with unique dropped
PlateNameUniqueOff(name, self) == TRUE

\* Plate.name: unique=True
PlateNameUnique(name, self) ==
    \A k \in DOMAIN plates \ {self} : plates[k].name # name

\* Plate.name: max_length=9
PlateNameFits(name) == Len(name) <= PlateNameMax

\* Well.Meta with unique_together dropped
WellUniqueTogetherOff(plate, name, self) == TRUE

\* Well.Meta: unique_together = ('plate', 'name')
WellUniqueTogether(plate, name, self) ==
    \A k \in DOMAIN wells \ {self} :
        ~(wells[k].plate = plate /\ wells[k].name = name)

\* Well.name with the choices dropped: only max_length=3 is left
WellNameAnyFitting(name) == Len(name) <= WellNameMax

\* Well.name: max_length=3, choices=WELL_CHOICES
WellNameValid(name) ==
    Len(name) <= WellNameMax /\ name \in WellNameChoices

\* Well.primer with the choices dropped: only max_length=2 is left
PrimerAnyFitting(primer) == Len(primer) <= PrimerMax

\* Well.primer: max_length=2, choices=PRIMER_CHOICES
PrimerValid(primer) ==
    Len(primer) <= PrimerMax /\ primer \in PrimerChoices

\* ForeignKey with no check that the row exists
RefExistsOff(t, pk) == TRUE

\* ForeignKey(T): the referenced row exists
RefExists(t, pk) == pk \in DOMAIN t

---------------------------------------------------------------------------
(* Validation of a submission: "ok", or the error reported. *)

SheetCheck(v, self) ==
    IF ~SheetNameFits(v.name) THEN "too long"
    ELSE IF ~SheetNameUnique(v.name, self) THEN "unique"
    ELSE "ok"

SessionCheck(v, self) ==
    IF ~SessionDateUnique(v.date, self) THEN "unique" ELSE "ok"

SampleCheck(v) ==
    IF ~(RefExists(sheets, v.sheet) /\ RefExists(sessions, v.session))
    THEN "reference"
    ELSE "ok"

PhotoCheck(v) ==
    IF ~RefExists(samples, v.sample) THEN "reference" ELSE "ok"

PlateCheck(v, self) ==
    IF ~PlateNameFits(v.name) THEN "too long"
    ELSE IF ~PlateNameUnique(v.name, self) THEN "unique"
    ELSE "ok"

WellCheck(v, self) ==
    IF ~WellNameValid(v.name) THEN "name not a choice"
    ELSE IF ~PrimerValid(v.primer) THEN "primer not a choice"
    ELSE IF ~(RefExists(plates, v.plate) /\ RefExists(samples, v.sample))
    THEN "reference"
    ELSE IF ~WellUniqueTogether(v.plate, v.name, self) THEN "unique"
    ELSE "ok"

SequencingCheck(v) ==
    IF ~RefExists(wells, v.well) THEN "reference" ELSE "ok"

ResultCheck(v) ==
    IF ~RefExists(wells, v.well) THEN "reference" ELSE "ok"

---------------------------------------------------------------------------
(* Rows that reference given rows: what a delete takes with it. *)

\* Sample.sheet, Sample.session
SamplesOf(shs, ses) ==
    {s \in DOMAIN samples :
        samples[s].sheet \in shs \/ samples[s].session \in ses}

\* Photo.sample, with the photos of a deleted sample left behind
PhotosOfNone(ss) == {}

\* Photo.sample
PhotosOf(ss) == {p \in DOMAIN photos : photos[p].sample \in ss}

\* Well.plate, Well.sample
WellsOf(pls, ss) ==
    {w \in DOMAIN wells : wells[w].plate \in pls \/ wells[w].sample \in ss}

\* Sequencing.well
SequencingsOf(ws) == {q \in DOMAIN sequencings : sequencings[q].well \in ws}

\* Result.well
ResultsOf(ws) == {r \in DOMAIN results : results[r].well \in ws}

\* the rejected submission: nothing is committed
Reject(status) ==
    /\ response' = status
    /\ UNCHANGED <<tables, capacity>>

\* delete of the given rows and of every row that references them
DeleteRows(shs, ses, sas, phs, pls, wes, sqs, res) ==
    LET ss == sas \cup SamplesOf(shs, ses)
        ps == phs \cup PhotosOf(ss)
        ws == wes \cup WellsOf(pls, ss)
        qs == sqs \cup SequencingsOf(ws)
        rs == res \cup ResultsOf(ws)
    IN  /\ sheets' = Remove(sheets, shs)
        /\ sessions' = Remove(sessions, ses)
        /\ samples' = Remove(samples, ss)
        /\ photos' = Remove(photos, ps)
        /\ plates' = Remove(plates, pls)
        /\ wells' = Remove(wells, ws)
        /\ sequencings' = Remove(sequencings, qs)
        /\ results' = Remove(results, rs)
        /\ response' = "ok"
        /\ UNCHANGED capacity

---------------------------------------------------------------------------
(* The state after construction: an empty registry. *)

Start ==
    /\ sheets = Empty
    /\ sessions = Empty
    /\ samples = Empty
    /\ photos = Empty
    /\ plates = Empty
    /\ wells = Empty
    /\ sequencings = Empty
    /\ results = Empty
    /\ response = "ok"

Init == Start /\ capacity = MaxRows

InitWells == Start /\ capacity = MaxWellRows

---------------------------------------------------------------------------
(* Sheet *)

CreateSheet ==
    \E n \in SheetNames :
        LET v == [name |-> n]
            st == SheetCheck(v, 0)
        IN  IF st = "ok"
            THEN /\ Room
                 /\ \E pk \in Pks \ DOMAIN sheets :
                        /\ sheets' = Insert(sheets, pk, v)
                        /\ response' = "ok"
                 /\ UNCHANGED <<sessions, samples, photos, plates, wells,
                                sequencings, results, capacity>>
            ELSE Reject(st)

UpdateSheet ==
    \E pk \in DOMAIN sheets, n \in SheetNames :
        LET v == [name |-> n]
            st == SheetCheck(v, pk)
        IN  IF st = "ok"
            THEN /\ sheets' = [sheets EXCEPT ![pk] = v]
                 /\ response' = "ok"
                 /\ UNCHANGED <<sessions, samples, photos, plates, wells,
                                sequencings, results, capacity>>
            ELSE Reject(st)

DeleteSheet ==
    \E pk \in DOMAIN sheets :
        DeleteRows({pk}, {}, {}, {}, {}, {}, {}, {})

(* Session *)

CreateSession ==
    \E d \in Dates :
        LET v == [date |-> d]
            st == SessionCheck(v, 0)
        IN  IF st = "ok"
            THEN /\ Room
                 /\ \E pk \in Pks \ DOMAIN sessions :
                        /\ sessions' = Insert(sessions, pk, v)
                        /\ response' = "ok"
                 /\ UNCHANGED <<sheets, samples, photos, plates, wells,
                                sequencings, results, capacity>>
            ELSE Reject(st)

UpdateSession ==
    \E pk \in DOMAIN sessions, d \in Dates :
        LET v == [date |-> d]
            st == SessionCheck(v, pk)
        IN  IF st = "ok"
            THEN /\ sessions' = [sessions EXCEPT ![pk] = v]
                 /\ response' = "ok"
                 /\ UNCHANGED <<sheets, samples, photos, plates, wells,
                                sequencings, results, capacity>>
            ELSE Reject(st)

DeleteSession ==
    \E pk \in DOMAIN sessions :
        DeleteRows({}, {pk}, {}, {}, {}, {}, {}, {})

(* Sample *)

CreateSample ==
    \E sh \in Pks, se \in Pks, c \in Coords :
        LET v == [sheet |-> sh, session |-> se, x |-> c[1], y |-> c[2]]
            st == SampleCheck(v)
        IN  IF st = "ok"
            THEN /\ Room
                 /\ \E pk \in Pks \ DOMAIN samples :
                        /\ samples' = Insert(samples, pk, v)
                        /\ response' = "ok"
                 /\ UNCHANGED <<sheets, sessions, photos, plates, wells,
                                sequencings, results, capacity>>
            ELSE Reject(st)

UpdateSample ==
    \E pk \in DOMAIN samples, sh \in Pks, se \in Pks, c \in Coords :
        LET v == [sheet |-> sh, session |-> se, x |-> c[1], y |-> c[2]]
            st == SampleCheck(v)
        IN  IF st = "ok"
            THEN /\ samples' = [samples EXCEPT ![pk] = v]
                 /\ response' = "ok"
                 /\ UNCHANGED <<sheets, sessions, photos, plates, wells,
                                sequencings, results, capacity>>
            ELSE Reject(st)

DeleteSample ==
    \E pk \in DOMAIN samples :
        DeleteRows({}, {}, {pk}, {}, {}, {}, {}, {})

(* Photo *)

CreatePhoto ==
    \E sa \in Pks, f \in Files :
        LET v == [sample |-> sa, file |-> f]
            st == PhotoCheck(v)
        IN  IF st = "ok"
            THEN /\ Room
                 /\ \E pk \in Pks \ DOMAIN photos :
                        /\ photos' = Insert(photos, pk, v)
                        /\ response' = "ok"
                 /\ UNCHANGED <<sheets, sessions, samples, plates, wells,
                                sequencings, results, capacity>>
            ELSE Reject(st)

UpdatePhoto ==
    \E pk \in DOMAIN photos, sa \in Pks, f \in Files :
        LET v == [sample |-> sa, file |-> f]
            st == PhotoCheck(v)
        IN  IF st = "ok"
            THEN /\ photos' = [photos EXCEPT ![pk] = v]
                 /\ response' = "ok"
                 /\ UNCHANGED <<sheets, sessions, samples, plates, wells,
                                sequencings, results, capacity>>
            ELSE Reject(st)

DeletePhoto ==
    \E pk \in DOMAIN photos :
        DeleteRows({}, {}, {}, {pk}, {}, {}, {}, {})

(* Plate *)

\* the create of a Plate named n
CreatePlateNamed(n) ==
    LET v == [name |-> n]
        st == PlateCheck(v, 0)
    IN  IF st = "ok"
        THEN /\ Room
             /\ \E pk \in Pks \ DOMAIN plates :
                    /\ plates' = Insert(plates, pk, v)
                    /\ response' = "ok"
             /\ UNCHANGED <<sheets, sessions, samples, photos, wells,
                            sequencings, results, capacity>>
        ELSE Reject(st)

CreatePlate == \E n \in PlateNames : CreatePlateNamed(n)

UpdatePlate ==
    \E pk \in DOMAIN plates, n \in PlateNames :
        LET v == [name |-> n]
            st == PlateCheck(v, pk)
        IN  IF st = "ok"
            THEN /\ plates' = [plates EXCEPT ![pk] = v]
                 /\ response' = "ok"
                 /\ UNCHANGED <<sheets, sessions, samples, photos, wells,
                                sequencings, results, capacity>>
            ELSE Reject(st)

DeletePlate ==
    \E pk \in DOMAIN plates :
        DeleteRows({}, {}, {}, {}, {pk}, {}, {}, {})

(* Well *)

CreateWell ==
    \E v \in WellForms :
        LET st == WellCheck(v, 0)
        IN  IF st = "ok"
            THEN /\ Room
                 /\ \E pk \in Pks \ DOMAIN wells :
                        /\ wells' = Insert(wells, pk, v)
                        /\ response' = "ok"
                 /\ UNCHANGED <<sheets, sessions, samples, photos, plates,
                                sequencings, results, capacity>>
            ELSE Reject(st)

UpdateWell ==
    \E pk \in DOMAIN wells, v \in WellForms :
        LET st == WellCheck(v, pk)
        IN  IF st = "ok"
            THEN /\ wells' = [wells EXCEPT ![pk] = v]
                 /\ response' = "ok"
                 /\ UNCHANGED <<sheets, sessions, samples, photos, plates,
                                sequencings, results, capacity>>
            ELSE Reject(st)

DeleteWell ==
    \E pk \in DOMAIN wells :
        DeleteRows({}, {}, {}, {}, {}, {pk}, {}, {})

(* Sequencing *)

CreateSequencing ==
    \E w \in Pks :
        LET v == [well |-> w]
            st == SequencingCheck(v)
        IN  IF st = "ok"
            THEN /\ Room
                 /\ \E pk \in Pks \ DOMAIN sequencings :
                        /\ sequencings' = Insert(sequencings, pk, v)
                        /\ response' = "ok"
                 /\ UNCHANGED <<sheets, sessions, samples, photos, plates,
                                wells, results, capacity>>
            ELSE Reject(st)

UpdateSequencing ==
    \E pk \in DOMAIN sequencings, w \in Pks :
        LET v == [well |-> w]
            st == SequencingCheck(v)
        IN  IF st = "ok"
            THEN /\ sequencings' = [sequencings EXCEPT ![pk] = v]
                 /\ response' = "ok"
                 /\ UNCHANGED <<sheets, sessions, samples, photos, plates,
                                wells, results, capacity>>
            ELSE Reject(st)

DeleteSequencing ==
    \E pk \in DOMAIN sequencings :
        DeleteRows({}, {}, {}, {}, {}, {}, {pk}, {})

(* Result *)

CreateResult ==
    \E w \in Pks :
        LET v == [well |-> w]
            st == ResultCheck(v)
        IN  IF st = "ok"
            THEN /\ Room
                 /\ \E pk \in Pks \ DOMAIN results :
                        /\ results' = Insert(results, pk, v)
                        /\ response' = "ok"
                 /\ UNCHANGED <<sheets, sessions, samples, photos, plates,
                                wells, sequencings, capacity>>
            ELSE Reject(st)

UpdateResult ==
    \E pk \in DOMAIN results, w \in Pks :
        LET v == [well |-> w]
            st == ResultCheck(v)
        IN  IF st = "ok"
            THEN /\ results' = [results EXCEPT ![pk] = v]
                 /\ response' = "ok"
                 /\ UNCHANGED <<sheets, sessions, samples, photos, plates,
                                wells, sequencings, capacity>>
            ELSE Reject(st)

DeleteResult ==
    \E pk \in DOMAIN results :
        DeleteRows({}, {}, {}, {}, {}, {}, {}, {pk})

---------------------------------------------------------------------------

Next ==
    \/ CreateSheet \/ UpdateSheet \/ DeleteSheet
    \/ CreateSession \/ UpdateSession \/ DeleteSession
    \/ CreateSample \/ UpdateSample \/ DeleteSample
    \/ CreatePhoto \/ UpdatePhoto \/ DeletePhoto
    \/ CreatePlate \/ UpdatePlate \/ DeletePlate
    \/ CreateWell \/ UpdateWell \/ DeleteWell
    \/ CreateSequencing \/ UpdateSequencing \/ DeleteSequencing
    \/ CreateResult \/ UpdateResult \/ DeleteResult

Spec == Init /\ [][Next]_vars

\* Only the plates and the wells are worked on: every operation that reads or
\* writes them, and the entry of the sheets, sessions and samples they need.
NextWells ==
    \/ CreateSheet \/ DeleteSheet
    \/ CreateSession \/ DeleteSession
    \/ CreateSample \/ DeleteSample
    \/ CreatePlate \/ UpdatePlate \/ DeletePlate
    \/ CreateWell \/ UpdateWell \/ DeleteWell

SpecWells == InitWells /\ [][NextWells]_vars

---------------------------------------------------------------------------
(* Properties. *)

NoSheets == DOMAIN sheets = {}
NoSessions == DOMAIN sessions = {}
NoPlates == DOMAIN plates = {}

\* C1: no two stored Sheets have the same name, whatever was created,
\* renamed or deleted before.
C1_SheetNamesUnique ==
    \A a \in DOMAIN sheets : \A b \in DOMAIN sheets :
        a # b => sheets[a].name # sheets[b].name

\* Two Sheets are stored and the last submission was rejected for
\* uniqueness; with no Session and no Plate stored it was a Sheet's.
C1_Witness ==
    /\ Cardinality(DOMAIN sheets) = 2
    /\ NoSessions /\ NoPlates
    /\ response = "unique"

\* C2: no two stored Wells have both the same plate and the same name.
C2_WellKeyUnique ==
    \A a \in DOMAIN wells : \A b \in DOMAIN wells :
        a # b => ~(wells[a].plate = wells[b].plate
                   /\ wells[a].name = wells[b].name)

\* Two Wells on different plates share a name.
C2_Witness ==
    \E a \in DOMAIN wells : \E b \in DOMAIN wells :
        /\ wells[a].plate # wells[b].plate
        /\ wells[a].name = wells[b].name

\* C3: the create of a Plate whose name a stored Plate has is rejected with
\* a uniqueness error and commits nothing: every table is as it was.
C3_DuplicatePlateRejected ==
    [][\A n \in PlateNames :
          ((\E k \in DOMAIN plates : plates[k].name = n)
           /\ CreatePlateNamed(n))
          => (response' = "unique" /\ UNCHANGED tables)]_vars

\* One Plate is stored and the last submission was rejected for uniqueness;
\* with no Sheet and no Session stored it was the create of a second Plate
\* of the same name.
C3_Witness ==
    /\ Cardinality(DOMAIN plates) = 1
    /\ NoSheets /\ NoSessions
    /\ response = "unique"

\* C4: every foreign key of every stored row points to a stored row.
C4_ReferencesStored ==
    /\ \A s \in DOMAIN samples :
          samples[s].sheet \in DOMAIN sheets
          /\ samples[s].session \in DOMAIN sessions
    /\ \A p \in DOMAIN photos : photos[p].sample \in DOMAIN samples
    /\ \A w \in DOMAIN wells :
          wells[w].plate \in DOMAIN plates
          /\ wells[w].sample \in DOMAIN samples
    /\ \A q \in DOMAIN sequencings : sequencings[q].well \in DOMAIN wells
    /\ \A r \in DOMAIN results : results[r].well \in DOMAIN wells

\* A Sequencing is stored, on a Well of a Plate holding a Sample of a Sheet
\* and a Session, and the last submission was rejected for a missing
\* reference.
C4_Witness ==
    /\ DOMAIN sequencings # {}
    /\ response = "reference"

\* C5: every stored Well has a primer among "01", "04" and "DL".
C5_PrimerInChoices ==
    \A w \in DOMAIN wells : wells[w].primer \in {"01", "04", "DL"}

\* A Well is stored and the last submission, a Well with primer "99", was
\* rejected as out of the domain.
C5_Witness ==
    /\ DOMAIN wells # {}
    /\ response = "primer not a choice"

\* the 96-cell grid: a row letter A..H, then the column 01..12 in two digits
WellGrid ==
    {r \o (IF c < 10 THEN "0" \o ToString(c) ELSE ToString(c)) :
        r \in {"A", "B", "C", "D", "E", "F", "G", "H"}, c \in 1..12}

\* C6: WELL_CHOICES has exactly 96 distinct names, from A01 to H12, each a
\* row letter A..H and a column 01..12, and every stored Well has one of
\* them as its name.
C6_WellNameOnGrid ==
    /\ Len(WELL_CHOICES) = 96
    /\ Cardinality(WellNameChoices) = 96
    /\ WellNameChoices = WellGrid
    /\ WELL_CHOICES[1] = <<"A01", "A01">>
    /\ WELL_CHOICES[96] = <<"H12", "H12">>
    /\ \A w \in DOMAIN wells : wells[w].name \in WellGrid

\* Wells named A01 and H12 are stored and the last submission, a Well
\* named A13, was rejected.
C6_Witness ==
    /\ \E w \in DOMAIN wells : wells[w].name = "A01"
    /\ \E w \in DOMAIN wells : wells[w].name = "H12"
    /\ response = "name not a choice"

\* the display form of the dates entered
DateDisplay(d) ==
    CASE d = [year |-> 2024, month |-> 1, day |-> 1] -> "2024-01-01"
      [] d = [year |-> 987, month |-> 12, day |-> 31] -> "0987-12-31"

\* C7: the display name of a stored Sample is the name of its Sheet, "-",
\* the date of its Session in display form, "-", and its own key; for Sheet
\* "S1" and Session 2024-01-01 it is "S1-2024-01-01-<key>".
C7_SampleNameComposed ==
    \A s \in DOMAIN samples :
        LET sh == sheets[samples[s].sheet]
            se == sessions[samples[s].session]
        IN  /\ SampleName(s) =
                   sh.name \o "-" \o DateDisplay(se.date) \o "-" \o ToString(s)
            /\ (sh.name = "S1"
                /\ se.date = [year |-> 2024, month |-> 1, day |-> 1])
               => SampleName(s) = "S1-2024-01-01-" \o ToString(s)

\* Sample 2 of Sheet "S1" and Session 2024-01-01 is named "S1-2024-01-01-2",
\* and a Sample of the Session of the year 987 is stored too.
C7_Witness ==
    /\ 2 \in DOMAIN samples
    /\ SampleName(2) = "S1-2024-01-01-2"
    /\ \E s \in DOMAIN samples : sessions[samples[s].session].date.year = 987

\* C8: two distinct stored Samples have different display names.
C8_SampleNamesDistinct ==
    \A a \in DOMAIN samples : \A b \in DOMAIN samples :
        a # b => SampleName(a) # SampleName(b)

\* Two Samples of the same Sheet and the same Session are stored, and the
\* name of the Sheet has hyphens in it.
C8_Witness ==
    \E a \in DOMAIN samples : \E b \in DOMAIN samples :
        /\ a # b
        /\ samples[a].sheet = samples[b].sheet
        /\ samples[a].session = samples[b].session
        /\ sheets[samples[a].sheet].name = "S1-2024-01-01"

\* C9 as claimed: a write that leaves a stored Sample's own row as it was
\* leaves its display name as it was, whatever else it writes.
C9_NameNeverChanges ==
    [][tables' # tables =>
          \A s \in DOMAIN samples \cap DOMAIN samples' :
              samples'[s] = samples[s] => SampleName(s)' = SampleName(s)]_vars

\* C9: a write that leaves a stored Sample's own row, the name of its Sheet
\* and the date of its Session as they were leaves its display name as it
\* was.
C9_NameStableWhileKeysKept ==
    [][tables' # tables =>
          \A s \in DOMAIN samples \cap DOMAIN samples' :
              (/\ samples'[s] = samples[s]
               /\ sheets'[samples[s].sheet].name
                      = sheets[samples[s].sheet].name
               /\ sessions'[samples[s].session].date
                      = sessions[samples[s].session].date)
              => SampleName(s)' = SampleName(s)]_vars

\* Sample 2 is stored with a Photo and a Well entered after it, and Sample 1
\* is not stored.
C9_Witness ==
    /\ DOMAIN samples = {2}
    /\ \E p \in DOMAIN photos : photos[p].sample = 2
    /\ \E w \in DOMAIN wells : wells[w].sample = 2

PhotosOfSample(s) == {p \in DOMAIN photos : photos[p].sample = s}

\* C10 as claimed: every stored Sample has exactly one Photo.
C10_OnePhotoPerSample ==
    \A s \in DOMAIN samples : Cardinality(PhotosOfSample(s)) = 1

\* C10: every stored Sample belongs to exactly one stored Sheet and one
\* stored Session, and every stored Photo to exactly one stored Sample.
C10_SampleAndPhotoOwners ==
    /\ \A s \in DOMAIN samples :
          /\ Cardinality({h \in DOMAIN sheets : h = samples[s].sheet}) = 1
          /\ Cardinality({e \in DOMAIN sessions : e = samples[s].session}) = 1
    /\ \A p \in DOMAIN photos :
          Cardinality({s \in DOMAIN samples : s = photos[p].sample}) = 1

\* One Sample is stored with two Photos and another with none.
C10_Witness ==
    \E a \in DOMAIN samples : \E b \in DOMAIN samples :
        /\ Cardinality(PhotosOfSample(a)) = 2
        /\ PhotosOfSample(b) = {}

=============================================================================
